---- MODULE Spec2Model ----
(***************************************************************************)
(* Model of src/main.py: a linear script that creates, fills, queries and  *)
(* drops the `user` table four times (raw SQL text, SA Core, ORM,          *)
(* sqlmodel) against the file database sqlite.db.                          *)
(*                                                                         *)
(* The script is one process; pc is the line of the next statement.  The   *)
(* database is modelled as the committed content of the file plus the      *)
(* working view of the one DBAPI connection in use, with the transaction   *)
(* rules of the sqlite3 driver: a DML statement opens a transaction, a DDL *)
(* statement does not, so DDL run outside a transaction is durable at      *)
(* once.  The library release is not pinned by the repository; the two     *)
(* behaviours a build can have are modelled by `autocommit`: TRUE is the   *)
(* legacy engine that commits a data-changing statement executed on a      *)
(* connection with no transaction, FALSE is the engine that never does.    *)
(***************************************************************************)
EXTENDS Integers, Sequences, FiniteSets

\* Bound on the rows a `user` table left in sqlite.db by an interrupted
\* earlier run may hold when the script starts.
MaxPreRows == 1

VARIABLES pc, status, autocommit, start, sqlite, open, metadata, User,
          objs, new, identity, result, cursor, user, got, trace

vars == <<pc, status, autocommit, start, sqlite, open, metadata, User,
          objs, new, identity, result, cursor, user, got, trace>>

env == <<autocommit, start>>
decl == <<metadata, User>>
sess == <<objs, new, identity>>
loop == <<result, cursor, user>>

----------------------------------------------------------------------------
\* Literals of the script

Dob1 == "2000-01-01T13:59:00.000+05:30"
Dob2 == "2000-12-13T14:00:30+05:30"
Dob3 == "2000-04-23T16:34:53+05:30"
Dob4 == "1999-11-30T14:00:39.293200+05:30"
Dob5 == "2001-04-01T03:40:02+05:30"
Dob6 == "2023-01-05T23:44:18+05:30"

\* The value of a name or column that was not given one (Python's None).
None == "None"

RawValues == << [name |-> "Alice Almeron", dob |-> Dob1] >>

CoreValues == << [name |-> "Alice Almeron", dob |-> Dob2],
                 [name |-> "Bob Baker", dob |-> Dob3] >>

\* The objects the script constructs, by section and variable.
Objects == [ orm_user_1 |-> [name |-> "Alice Almeron", dob |-> Dob4],
             orm_user_2 |-> [name |-> "Bob Baker", dob |-> Dob5],
             orm_anon   |-> [name |-> None, dob |-> None],
             sm_user_1  |-> [name |-> "Alice", dob |-> Dob6],
             sm_user_2  |-> [name |-> "Bob", dob |-> Dob6] ]

ObjNames == DOMAIN Objects

\* The statements given as text.  The legacy engine decides whether to
\* commit a text statement by matching a pattern at its very start, so a
\* statement that opens with a "--" comment line is not recognised.
CreateText == [comment |-> TRUE, verb |-> "CREATE"]
InsertText == [comment |-> TRUE, verb |-> "INSERT"]
SelectText == [comment |-> TRUE, verb |-> "SELECT"]
DropText   == [comment |-> FALSE, verb |-> "DROP"]

----------------------------------------------------------------------------
\* The database

NoTable == [exists |-> FALSE, rows |-> {}]

EmptyTable == [exists |-> TRUE, rows |-> {}]

Ids(rows) == {r.id : r \in rows}

Max(S) == CHOOSE m \in S : \A n \in S : n <= m

\* A mutation of NextId: the id counter survives the drop of the table, so
\* it counts every insert of the run.
NextIdKept(rows) ==
    Cardinality({k \in DOMAIN trace : trace[k].op = "insert"}) + 1

\* A mutation of NextId: every row is given the same id.
NextIdConst(rows) == 1

\* The id given to a row inserted without one: INTEGER PRIMARY KEY is the
\* rowid, one more than the largest in the table, 1 in an empty table.
NextId(rows) == IF rows = {} THEN 1 ELSE Max(Ids(rows)) + 1

RECURSIVE InsertAll(_, _)
InsertAll(rows, vals) ==
    IF vals = << >> THEN rows
    ELSE InsertAll(rows \cup {[id |-> NextId(rows),
                               name |-> Head(vals).name,
                               dob |-> Head(vals).dob]}, Tail(vals))

\* The ids InsertAll gives to vals, in order.
RECURSIVE NewIds(_, _)
NewIds(rows, vals) ==
    IF vals = << >> THEN << >>
    ELSE << NextId(rows) >> \o
         NewIds(rows \cup {[id |-> NextId(rows),
                            name |-> Head(vals).name,
                            dob |-> Head(vals).dob]}, Tail(vals))

RECURSIVE SortById(_)
SortById(rows) ==
    IF rows = {} THEN << >>
    ELSE LET r == CHOOSE x \in rows : \A y \in rows : x.id <= y.id
         IN << r >> \o SortById(rows \ {r})

\* CREATE TABLE user: DDL does not open a transaction; outside one it is
\* durable at once, inside one it is part of the transaction.
CreateTable(cs) ==
    [db |-> EmptyTable,
     committed |-> IF cs.inTx THEN cs.committed ELSE EmptyTable,
     inTx |-> cs.inTx]

\* DROP TABLE user: DDL, as CreateTable.
DropTable(cs) ==
    [db |-> NoTable,
     committed |-> IF cs.inTx THEN cs.committed ELSE NoTable,
     inTx |-> cs.inTx]

\* INSERT INTO user (name, dob): DML opens a transaction if none is open.
Insert(cs, vals) ==
    [db |-> [exists |-> TRUE, rows |-> InsertAll(cs.db.rows, vals)],
     committed |-> cs.committed,
     inTx |-> TRUE]

Commit(cs) == [db |-> cs.db, committed |-> cs.db, inTx |-> FALSE]

Rollback(cs) == [db |-> cs.committed, committed |-> cs.committed, inTx |-> FALSE]

\* The pattern of the legacy engine, matched at the start of the text.
ShouldAutocommitText(stmt) ==
    /\ ~stmt.comment
    /\ stmt.verb \in {"UPDATE", "INSERT", "CREATE", "DELETE", "DROP", "ALTER"}

\* A mutation of Autocommit: every engine commits a flagged statement.
AutocommitAlways(cs, flagged) == IF flagged THEN Commit(cs) ELSE cs

\* conn.execute on the legacy engine: conn never has a transaction of the
\* library, so a statement flagged as data-changing is committed after it.
Autocommit(cs, flagged) == IF autocommit /\ flagged THEN Commit(cs) ELSE cs

\* SELECT ... FROM user WHERE id < limit
SelectWhere(cs, limit) == SortById({r \in cs.db.rows : r.id < limit})

\* SELECT ... FROM user
SelectAll(cs) == SortById(cs.db.rows)

Log(sec, op) == Append(trace, [sec |-> sec, op |-> op])

\* An unhandled exception ends the script at the statement that raised.
Raise == status' = "error" /\ pc' = pc

----------------------------------------------------------------------------
\* Initial state

\* A `user` table already in sqlite.db when the script starts, as a run
\* interrupted after the committed Core insert leaves it: k rows of that
\* insert, with distinct ids.
PreRows(k) == {[id |-> i,
                name |-> CoreValues[((i - 1) % Len(CoreValues)) + 1].name,
                dob |-> CoreValues[((i - 1) % Len(CoreValues)) + 1].dob]
               : i \in 1..k}

StartDbs == {NoTable} \cup
            {[exists |-> TRUE, rows |-> PreRows(k)] : k \in 0..MaxPreRows}

Init ==
    /\ pc = 7
    /\ status = "running"
    /\ autocommit \in BOOLEAN
    /\ start \in StartDbs
    /\ sqlite = [db |-> start, committed |-> start, inTx |-> FALSE]
    /\ open = {}
    /\ metadata = [metadata |-> {}, Base |-> {}, SQLModel |-> {}]
    /\ User = "unbound"
    /\ objs = [o \in ObjNames |-> [st |-> "unmade", id |-> 0]]
    /\ new = << >>
    /\ identity = {}
    /\ result = << >>
    /\ cursor = 0
    /\ user = << >>
    /\ got = << >>
    /\ trace = << >>

At(line) == status = "running" /\ pc = line

----------------------------------------------------------------------------
\* Using primitive SQL text (lines 7-54)

\* 7: engine = sa.create_engine(...); no connection is made yet.
CreateEngine ==
    /\ At(7)
    /\ pc' = 12
    /\ UNCHANGED <<status, env, sqlite, open, decl, sess, loop, got, trace>>

\* 12: conn = engine.connect()
Connect ==
    /\ At(12)
    /\ pc' = 13
    /\ open' = open \cup {"conn"}
    /\ UNCHANGED <<status, env, sqlite, decl, sess, loop, got, trace>>

\* 13-23: conn.execute(text("-- Create table `user` CREATE TABLE user ..."))
RawCreateTable ==
    /\ At(13)
    /\ IF "conn" \in open /\ ~sqlite.db.exists
       THEN /\ sqlite' = Autocommit(CreateTable(sqlite),
                                    ShouldAutocommitText(CreateText))
            /\ trace' = Log("raw", "create")
            /\ pc' = 25
            /\ UNCHANGED status
       ELSE Raise /\ UNCHANGED <<sqlite, trace>>
    /\ UNCHANGED <<env, open, decl, sess, loop, got>>

\* A mutation of RawInsert: the statement is left out.
RawInsertMissing ==
    /\ At(25)
    /\ pc' = 38
    /\ UNCHANGED <<status, env, sqlite, open, decl, sess, loop, got, trace>>

\* 25-35: conn.execute(text("-- Add user INSERT INTO user (name, dob) ..."))
RawInsert ==
    /\ At(25)
    /\ IF "conn" \in open /\ sqlite.db.exists
       THEN /\ sqlite' = Autocommit(Insert(sqlite, RawValues),
                                    ShouldAutocommitText(InsertText))
            /\ trace' = Log("raw", "insert")
            /\ pc' = 38
            /\ UNCHANGED status
       ELSE Raise /\ UNCHANGED <<sqlite, trace>>
    /\ UNCHANGED <<env, open, decl, sess, loop, got>>

\* 38-45: result = conn.execute(text("-- Get all users SELECT ... FROM user u"))
RawSelect ==
    /\ At(38)
    /\ IF "conn" \in open /\ sqlite.db.exists
       THEN /\ result' = SelectAll(sqlite)
            /\ cursor' = 0
            /\ trace' = Log("raw", "query")
            /\ pc' = 47
            /\ UNCHANGED status
       ELSE Raise /\ UNCHANGED <<result, cursor, trace>>
    /\ UNCHANGED <<env, sqlite, open, decl, sess, user, got>>

\* 47-51: for user in result: print(...)
RawForUser ==
    /\ At(47)
    /\ IF cursor < Len(result)
       THEN /\ user' = << result[cursor + 1] >>
            /\ cursor' = cursor + 1
            /\ pc' = 47
       ELSE /\ pc' = 54
            /\ UNCHANGED <<cursor, user>>
    /\ UNCHANGED <<status, env, sqlite, open, decl, sess, result, got, trace>>

\* A mutation of RawDropTable: the statement is left out.
RawDropTableMissing ==
    /\ At(54)
    /\ pc' = 59
    /\ UNCHANGED <<status, env, sqlite, open, decl, sess, loop, got, trace>>

\* 54: conn.execute(sa.text("DROP TABLE user"))
RawDropTable ==
    /\ At(54)
    /\ IF "conn" \in open /\ sqlite.db.exists
       THEN /\ sqlite' = Autocommit(DropTable(sqlite),
                                    ShouldAutocommitText(DropText))
            /\ trace' = Log("raw", "drop")
            /\ pc' = 59
            /\ UNCHANGED status
       ELSE Raise /\ UNCHANGED <<sqlite, trace>>
    /\ UNCHANGED <<env, open, decl, sess, loop, got>>

----------------------------------------------------------------------------
\* Using SA Core (lines 59-97)

\* 59: metadata = sa.MetaData()
CoreMetaData ==
    /\ At(59)
    /\ metadata' = [metadata EXCEPT !.metadata = {}]
    /\ pc' = 61
    /\ UNCHANGED <<status, env, sqlite, open, User, sess, loop, got, trace>>

\* 61-67: user_table = sa.Table("user", metadata, ...)
CoreTable ==
    /\ At(61)
    /\ metadata' = [metadata EXCEPT !.metadata = @ \cup {"user"}]
    /\ pc' = 69
    /\ UNCHANGED <<status, env, sqlite, open, User, sess, loop, got, trace>>

\* 69: user_table.create(bind=conn); Table.create does not check first.
CoreCreate ==
    /\ At(69)
    /\ IF "conn" \in open /\ ~sqlite.db.exists
       THEN /\ sqlite' = Autocommit(CreateTable(sqlite), TRUE)
            /\ trace' = Log("core", "create")
            /\ pc' = 71
            /\ UNCHANGED status
       ELSE Raise /\ UNCHANGED <<sqlite, trace>>
    /\ UNCHANGED <<env, open, decl, sess, loop, got>>

\* A mutation of CoreInsert: only the first of the two rows is inserted.
CoreInsertFirstOnly ==
    /\ At(71)
    /\ sqlite' = Autocommit(Insert(sqlite, << CoreValues[1] >>), TRUE)
    /\ trace' = Log("core", "insert")
    /\ pc' = 87
    /\ UNCHANGED <<status, env, open, decl, sess, loop, got>>

\* 71-84: conn.execute(user_table.insert().values([...two rows...]))
CoreInsert ==
    /\ At(71)
    /\ IF "conn" \in open /\ sqlite.db.exists
       THEN /\ sqlite' = Autocommit(Insert(sqlite, CoreValues), TRUE)
            /\ trace' = Log("core", "insert")
            /\ pc' = 87
            /\ UNCHANGED status
       ELSE Raise /\ UNCHANGED <<sqlite, trace>>
    /\ UNCHANGED <<env, open, decl, sess, loop, got>>

\* 87: users = conn.execute(user_table.select().where(user_table.c.id < 1_000))
CoreSelect ==
    /\ At(87)
    /\ IF "conn" \in open /\ sqlite.db.exists
       THEN /\ result' = SelectWhere(sqlite, 1000)
            /\ cursor' = 0
            /\ trace' = Log("core", "query")
            /\ pc' = 89
            /\ UNCHANGED status
       ELSE Raise /\ UNCHANGED <<result, cursor, trace>>
    /\ UNCHANGED <<env, sqlite, open, decl, sess, user, got>>

\* 89-92: for user in users: print(...)
CoreForUser ==
    /\ At(89)
    /\ IF cursor < Len(result)
       THEN /\ user' = << result[cursor + 1] >>
            /\ cursor' = cursor + 1
            /\ pc' = 89
       ELSE /\ pc' = 95
            /\ UNCHANGED <<cursor, user>>
    /\ UNCHANGED <<status, env, sqlite, open, decl, sess, result, got, trace>>

\* 95: user_table.drop(bind=conn)
CoreDrop ==
    /\ At(95)
    /\ IF "conn" \in open /\ sqlite.db.exists
       THEN /\ sqlite' = Autocommit(DropTable(sqlite), TRUE)
            /\ trace' = Log("core", "drop")
            /\ pc' = 97
            /\ UNCHANGED status
       ELSE Raise /\ UNCHANGED <<sqlite, trace>>
    /\ UNCHANGED <<env, open, decl, sess, loop, got>>

\* A mutation of ConnClose: the connection is left open.
ConnCloseMissing ==
    /\ At(97)
    /\ pc' = 102
    /\ UNCHANGED <<status, env, sqlite, open, decl, sess, loop, got, trace>>

\* 97: conn.close(); what is not committed is rolled back.
ConnClose ==
    /\ At(97)
    /\ sqlite' = Rollback(sqlite)
    /\ open' = open \ {"conn"}
    /\ pc' = 102
    /\ UNCHANGED <<status, env, decl, sess, loop, got, trace>>

----------------------------------------------------------------------------
\* The session: objects added and not yet flushed (new, in the order of
\* s.add) and objects with a row (identity)

FlushVals == [k \in 1..Len(new) |-> Objects[new[k]]]

\* A flush emits one INSERT per pending object; none when nothing is pending.
CanFlush == new = << >> \/ sqlite.db.exists

Flushed(cs) == IF new = << >> THEN cs ELSE Insert(cs, FlushVals)

FlushedObjs ==
    [o \in ObjNames |->
        IF \E k \in 1..Len(new) : new[k] = o
        THEN [st |-> "persistent",
              id |-> NewIds(sqlite.db.rows, FlushVals)
                        [CHOOSE k \in 1..Len(new) : new[k] = o]]
        ELSE objs[o]]

FlushedTrace(sec, op) ==
    IF new = << >> THEN Log(sec, op)
    ELSE Append(Log(sec, "insert"), [sec |-> sec, op |-> op])

\* SELECT ... FROM user WHERE id = ident (the primary-key lookup of s.get)
SelectById(cs, ident) == SortById({r \in cs.db.rows : r.id = ident})

\* An exception inside a `with` block closes the session on the way out.
SessionRaise(s) ==
    /\ Raise
    /\ sqlite' = Rollback(sqlite)
    /\ open' = open \ {s}
    /\ new' = << >>
    /\ identity' = {}
    /\ UNCHANGED <<env, decl, objs, loop, got, trace>>

\* MetaData.create_all: check first, create the tables that are missing.
CreateAll(cs, tables) ==
    IF "user" \in tables /\ ~cs.db.exists THEN CreateTable(cs) ELSE cs

\* MetaData.drop_all: check first, drop the tables that are there.
DropAll(cs, tables) ==
    IF "user" \in tables /\ cs.db.exists THEN DropTable(cs) ELSE cs

----------------------------------------------------------------------------
\* Using ORM (lines 102-141)

\* 102: session = sa_orm.sessionmaker(bind=engine)
SessionMaker ==
    /\ At(102)
    /\ pc' = 104
    /\ UNCHANGED <<status, env, sqlite, open, decl, sess, loop, got, trace>>

\* 104: Base = sa_orm.declarative_base()
DeclarativeBase ==
    /\ At(104)
    /\ metadata' = [metadata EXCEPT !.Base = {}]
    /\ pc' = 107
    /\ UNCHANGED <<status, env, sqlite, open, User, sess, loop, got, trace>>

\* 107-116: class User(Base), __tablename__ = "user"
OrmUser ==
    /\ At(107)
    /\ metadata' = [metadata EXCEPT !.Base = @ \cup {"user"}]
    /\ User' = "Base"
    /\ pc' = 119
    /\ UNCHANGED <<status, env, sqlite, open, sess, loop, got, trace>>

\* 119: with session() as s:
OrmEnter ==
    /\ At(119)
    /\ open' = open \cup {"orm"}
    /\ pc' = 120
    /\ UNCHANGED <<status, env, sqlite, decl, sess, loop, got, trace>>

\* 120: Base.metadata.create_all(bind=s.connection())
OrmCreateAll ==
    /\ At(120)
    /\ IF "orm" \in open
       THEN /\ sqlite' = CreateAll(sqlite, metadata.Base)
            /\ trace' = Log("orm", "create")
            /\ pc' = 122
            /\ UNCHANGED <<status, env, open, decl, sess, loop, got>>
       ELSE SessionRaise("orm")

\* 122-125: user_1 = User(name="Alice Almeron", dob=...)
OrmUser1 ==
    /\ At(122)
    /\ objs' = [objs EXCEPT !.orm_user_1.st = "transient"]
    /\ pc' = 126
    /\ UNCHANGED <<status, env, sqlite, open, decl, new, identity, loop, got, trace>>

\* 126: s.add(user_1)
OrmAdd1 ==
    /\ At(126)
    /\ new' = Append(new, "orm_user_1")
    /\ objs' = [objs EXCEPT !.orm_user_1.st = "pending"]
    /\ pc' = 127
    /\ UNCHANGED <<status, env, sqlite, open, decl, identity, loop, got, trace>>

\* 127: s.flush()
OrmFlush ==
    /\ At(127)
    /\ IF "orm" \in open /\ CanFlush
       THEN /\ sqlite' = Flushed(sqlite)
            /\ objs' = FlushedObjs
            /\ identity' = identity \cup {new[k] : k \in 1..Len(new)}
            /\ new' = << >>
            /\ trace' = IF new = << >> THEN trace ELSE Log("orm", "insert")
            /\ pc' = 129
            /\ UNCHANGED <<status, env, open, decl, loop, got>>
       ELSE SessionRaise("orm")

\* 129-131: user_2 = User(name="Bob Baker", dob=...)
OrmUser2 ==
    /\ At(129)
    /\ objs' = [objs EXCEPT !.orm_user_2.st = "transient"]
    /\ pc' = 132
    /\ UNCHANGED <<status, env, sqlite, open, decl, new, identity, loop, got, trace>>

\* 132: s.add(user_2)
OrmAdd2 ==
    /\ At(132)
    /\ new' = Append(new, "orm_user_2")
    /\ objs' = [objs EXCEPT !.orm_user_2.st = "pending"]
    /\ pc' = 133
    /\ UNCHANGED <<status, env, sqlite, open, decl, identity, loop, got, trace>>

\* 133: User(); constructed, never added to the session.
OrmBareUser ==
    /\ At(133)
    /\ objs' = [objs EXCEPT !.orm_anon.st = "transient"]
    /\ pc' = 134
    /\ UNCHANGED <<status, env, sqlite, open, decl, new, identity, loop, got, trace>>

\* A mutation of OrmSelect: the query runs without flushing the session.
OrmSelectNoFlush ==
    /\ At(134)
    /\ result' = SelectAll(sqlite)
    /\ cursor' = 0
    /\ trace' = Log("orm", "query")
    /\ pc' = 135
    /\ UNCHANGED <<status, env, sqlite, open, decl, sess, user, got>>

\* 134: users = s.execute(sa.select(User)).scalars().all(); the session
\* flushes what is pending before it runs the query.
OrmSelect ==
    /\ At(134)
    /\ IF "orm" \in open /\ CanFlush /\ Flushed(sqlite).db.exists
       THEN /\ sqlite' = Flushed(sqlite)
            /\ objs' = FlushedObjs
            /\ identity' = identity \cup {new[k] : k \in 1..Len(new)}
            /\ new' = << >>
            /\ result' = SelectAll(Flushed(sqlite))
            /\ cursor' = 0
            /\ trace' = FlushedTrace("orm", "query")
            /\ pc' = 135
            /\ UNCHANGED <<status, env, open, decl, user, got>>
       ELSE SessionRaise("orm")

\* 135-137: for user in users: print(...)
OrmForUser ==
    /\ At(135)
    /\ IF cursor < Len(result)
       THEN /\ user' = << result[cursor + 1] >>
            /\ cursor' = cursor + 1
            /\ pc' = 135
       ELSE /\ pc' = 139
            /\ UNCHANGED <<cursor, user>>
    /\ UNCHANGED <<status, env, sqlite, open, decl, sess, result, got, trace>>

\* 139: Base.metadata.drop_all(bind=s.connection())
OrmDropAll ==
    /\ At(139)
    /\ IF "orm" \in open
       THEN /\ sqlite' = DropAll(sqlite, metadata.Base)
            /\ trace' = Log("orm", "drop")
            /\ pc' = 141
            /\ UNCHANGED <<status, env, open, decl, sess, loop, got>>
       ELSE SessionRaise("orm")

\* 141: s.commit(); flushes, then commits.
OrmCommit ==
    /\ At(141)
    /\ IF "orm" \in open /\ CanFlush
       THEN /\ sqlite' = Commit(Flushed(sqlite))
            /\ objs' = FlushedObjs
            /\ identity' = identity \cup {new[k] : k \in 1..Len(new)}
            /\ new' = << >>
            /\ trace' = FlushedTrace("orm", "commit")
            /\ pc' = 142
            /\ UNCHANGED <<status, env, open, decl, loop, got>>
       ELSE SessionRaise("orm")

\* 119-141: leaving the `with` block closes the session.
OrmExit ==
    /\ At(142)
    /\ sqlite' = Rollback(sqlite)
    /\ open' = open \ {"orm"}
    /\ new' = << >>
    /\ identity' = {}
    /\ pc' = 147
    /\ UNCHANGED <<status, env, decl, objs, loop, got, trace>>

----------------------------------------------------------------------------
\* Using sqlmodel (lines 147-179)

\* 147-150: class User(sm.SQLModel, table=True); the name User is rebound.
SmUser ==
    /\ At(147)
    /\ metadata' = [metadata EXCEPT !.SQLModel = @ \cup {"user"}]
    /\ User' = "SQLModel"
    /\ pc' = 153
    /\ UNCHANGED <<status, env, sqlite, open, sess, loop, got, trace>>

\* 153: with sm.Session(bind=engine) as s:
SmEnter ==
    /\ At(153)
    /\ open' = open \cup {"sm"}
    /\ pc' = 154
    /\ UNCHANGED <<status, env, sqlite, decl, sess, loop, got, trace>>

\* 154: sm.SQLModel.metadata.create_all(bind=s.connection())
SmCreateAll ==
    /\ At(154)
    /\ IF "sm" \in open
       THEN /\ sqlite' = CreateAll(sqlite, metadata.SQLModel)
            /\ trace' = Log("sqlmodel", "create")
            /\ pc' = 156
            /\ UNCHANGED <<status, env, open, decl, sess, loop, got>>
       ELSE SessionRaise("sm")

\* 156-158: user_1 = User(name="Alice", dob=...)
SmUser1 ==
    /\ At(156)
    /\ objs' = [objs EXCEPT !.sm_user_1.st = "transient"]
    /\ pc' = 159
    /\ UNCHANGED <<status, env, sqlite, open, decl, new, identity, loop, got, trace>>

\* 159-161: user_2 = User(name="Bob", dob=...)
SmUser2 ==
    /\ At(159)
    /\ objs' = [objs EXCEPT !.sm_user_2.st = "transient"]
    /\ pc' = 163
    /\ UNCHANGED <<status, env, sqlite, open, decl, new, identity, loop, got, trace>>

\* 163: s.add(user_1)
SmAdd1 ==
    /\ At(163)
    /\ new' = Append(new, "sm_user_1")
    /\ objs' = [objs EXCEPT !.sm_user_1.st = "pending"]
    /\ pc' = 164
    /\ UNCHANGED <<status, env, sqlite, open, decl, identity, loop, got, trace>>

\* 164: s.flush()
SmFlush ==
    /\ At(164)
    /\ IF "sm" \in open /\ CanFlush
       THEN /\ sqlite' = Flushed(sqlite)
            /\ objs' = FlushedObjs
            /\ identity' = identity \cup {new[k] : k \in 1..Len(new)}
            /\ new' = << >>
            /\ trace' = IF new = << >> THEN trace ELSE Log("sqlmodel", "insert")
            /\ pc' = 166
            /\ UNCHANGED <<status, env, open, decl, loop, got>>
       ELSE SessionRaise("sm")

\* 166: users = s.exec(sm.select(User).where(sm.col(User.id) < 100))
SmExec ==
    /\ At(166)
    /\ IF "sm" \in open /\ CanFlush /\ Flushed(sqlite).db.exists
       THEN /\ sqlite' = Flushed(sqlite)
            /\ objs' = FlushedObjs
            /\ identity' = identity \cup {new[k] : k \in 1..Len(new)}
            /\ new' = << >>
            /\ result' = SelectWhere(Flushed(sqlite), 100)
            /\ cursor' = 0
            /\ trace' = FlushedTrace("sqlmodel", "query")
            /\ pc' = 167
            /\ UNCHANGED <<status, env, open, decl, user, got>>
       ELSE SessionRaise("sm")

\* 167-169: for user in users: print(...)
SmForUser ==
    /\ At(167)
    /\ IF cursor < Len(result)
       THEN /\ user' = << result[cursor + 1] >>
            /\ cursor' = cursor + 1
            /\ pc' = 167
       ELSE /\ pc' = 171
            /\ UNCHANGED <<cursor, user>>
    /\ UNCHANGED <<status, env, sqlite, open, decl, sess, result, got, trace>>

\* 171: s.add(user_2)
SmAdd2 ==
    /\ At(171)
    /\ new' = Append(new, "sm_user_2")
    /\ objs' = [objs EXCEPT !.sm_user_2.st = "pending"]
    /\ pc' = 173
    /\ UNCHANGED <<status, env, sqlite, open, decl, identity, loop, got, trace>>

\* 173: s.commit(); flushes user_2, then commits.
SmCommit ==
    /\ At(173)
    /\ IF "sm" \in open /\ CanFlush
       THEN /\ sqlite' = Commit(Flushed(sqlite))
            /\ objs' = FlushedObjs
            /\ identity' = identity \cup {new[k] : k \in 1..Len(new)}
            /\ new' = << >>
            /\ trace' = FlushedTrace("sqlmodel", "commit")
            /\ pc' = 175
            /\ UNCHANGED <<status, env, open, decl, loop, got>>
       ELSE SessionRaise("sm")

\* 175: user_2 = s.get(User, 2); None when no row has that primary key.
SmGet ==
    /\ At(175)
    /\ IF "sm" \in open /\ sqlite.db.exists
       THEN /\ got' = SelectById(sqlite, 2)
            /\ trace' = Log("sqlmodel", "query")
            /\ pc' = 177
            /\ UNCHANGED <<status, env, sqlite, open, decl, sess, loop>>
       ELSE SessionRaise("sm")

\* 177: print(user_2)
SmPrint ==
    /\ At(177)
    /\ pc' = 179
    /\ UNCHANGED <<status, env, sqlite, open, decl, sess, loop, got, trace>>

\* A mutation of SmDropAll: the statement is left out.
SmDropAllMissing ==
    /\ At(179)
    /\ pc' = 180
    /\ UNCHANGED <<status, env, sqlite, open, decl, sess, loop, got, trace>>

\* 179: sm.SQLModel.metadata.drop_all(bind=s.connection())
SmDropAll ==
    /\ At(179)
    /\ IF "sm" \in open
       THEN /\ sqlite' = DropAll(sqlite, metadata.SQLModel)
            /\ trace' = Log("sqlmodel", "drop")
            /\ pc' = 180
            /\ UNCHANGED <<status, env, open, decl, sess, loop, got>>
       ELSE SessionRaise("sm")

\* 153-179: leaving the `with` block closes the session; the script ends.
SmExit ==
    /\ At(180)
    /\ sqlite' = Rollback(sqlite)
    /\ open' = open \ {"sm"}
    /\ new' = << >>
    /\ identity' = {}
    /\ pc' = 181
    /\ status' = "done"
    /\ UNCHANGED <<env, decl, objs, loop, got, trace>>

----------------------------------------------------------------------------

Next ==
    \/ CreateEngine \/ Connect \/ RawCreateTable \/ RawInsert \/ RawSelect
    \/ RawForUser \/ RawDropTable
    \/ CoreMetaData \/ CoreTable \/ CoreCreate \/ CoreInsert \/ CoreSelect
    \/ CoreForUser \/ CoreDrop \/ ConnClose
    \/ SessionMaker \/ DeclarativeBase \/ OrmUser \/ OrmEnter \/ OrmCreateAll
    \/ OrmUser1 \/ OrmAdd1 \/ OrmFlush \/ OrmUser2 \/ OrmAdd2 \/ OrmBareUser
    \/ OrmSelect \/ OrmForUser \/ OrmDropAll \/ OrmCommit \/ OrmExit
    \/ SmUser \/ SmEnter \/ SmCreateAll \/ SmUser1 \/ SmUser2 \/ SmAdd1
    \/ SmFlush \/ SmExec \/ SmForUser \/ SmAdd2 \/ SmCommit \/ SmGet
    \/ SmPrint \/ SmDropAll \/ SmExit

Spec == Init /\ [][Next]_vars

----------------------------------------------------------------------------
\* Properties

Sections == {"raw", "core", "orm", "sqlmodel"}

Has(sec, op) == \E k \in DOMAIN trace : trace[k] = [sec |-> sec, op |-> op]

Row(ident, o) == [id |-> ident, name |-> Objects[o].name, dob |-> Objects[o].dob]

\* C1: in each of the four sections the operations on `user` occur in the
\* order create, insert, query, drop: the create precedes every insert and
\* query of the section, every query is preceded by an insert of the
\* section, the drop follows every insert and query of the section, and a
\* completed run has performed all four in every section.
C1_SectionOrder ==
    /\ \A i \in DOMAIN trace :
          LET e == trace[i] IN
          /\ e.op \in {"insert", "query"} =>
                \E j \in 1..(i - 1) : trace[j] = [sec |-> e.sec, op |-> "create"]
          /\ e.op = "query" =>
                \E j \in 1..(i - 1) : trace[j] = [sec |-> e.sec, op |-> "insert"]
          /\ e.op = "drop" =>
                /\ \E j \in 1..(i - 1) : trace[j] = [sec |-> e.sec, op |-> "query"]
                /\ \A j \in (i + 1)..Len(trace) :
                      trace[j].sec = e.sec => trace[j].op \notin {"create", "insert", "query"}
    /\ status = "done" =>
          \A sec \in Sections : \A op \in {"create", "insert", "query", "drop"} : Has(sec, op)

C1_Witness ==
    /\ status = "done"
    /\ \A sec \in Sections : Has(sec, "drop")

\* C2: a run started on a database with no `user` table ends with the
\* database again having no `user` table and no user rows, in committed
\* state and in the view of the last session alike, so the state it leaves
\* is the state it started from.
C2_NoPersistedState ==
    (status = "done" /\ ~start.exists) =>
        /\ sqlite.committed = NoTable
        /\ sqlite.db = NoTable
        /\ ~sqlite.inTx
        /\ sqlite.committed = start

C2_Witness ==
    /\ status = "done"
    /\ ~start.exists
    /\ Has("sqlmodel", "commit")
    /\ sqlite.committed = NoTable

\* C3: in a run started on a database with no `user` table no statement
\* raises: every statement finds the table in the state it needs.
C3_NoError ==
    ~start.exists =>
        /\ status # "error"
        /\ pc \in {13, 69} => ~sqlite.db.exists
        /\ pc \in {25, 38, 54, 71, 87, 95, 127, 139, 164, 166, 175, 179} =>
              sqlite.db.exists

C3_Witness ==
    /\ ~start.exists
    /\ pc = 71
    /\ status = "running"
    /\ sqlite.db = EmptyTable

\* C4: the connection and the two sessions are open one after the other:
\* at most one is open at a time, each is open only between its own open
\* and close statements (conn: lines 12-97, the ORM session: 119-141, the
\* sqlmodel session: 153-179), every statement that uses one finds it
\* open, and all three are closed when the script has run to its end.
C4_OpenedInSequence ==
    /\ Cardinality(open) <= 1
    /\ "conn" \in open => pc \in 13..97
    /\ "orm" \in open => pc \in 120..142
    /\ "sm" \in open => pc \in 154..180
    /\ pc \in {13, 25, 38, 47, 54, 69, 71, 87, 89, 95, 97} => "conn" \in open
    /\ (status = "running" /\ pc \in 120..142) => "orm" \in open
    /\ (status = "running" /\ pc \in 154..180) => "sm" \in open
    /\ status = "done" => open = {}

C4_Witness ==
    /\ "sm" \in open
    /\ pc = 175
    /\ Has("core", "drop")
    /\ Has("orm", "commit")

\* C5: ids are assigned by the database and unique: no insert of the
\* script supplies an id, every row has a positive integer id, no two rows
\* of the table have the same id, and an object has an id exactly when it
\* has been flushed.
C5_UniqueIds ==
    /\ \A k \in DOMAIN RawValues : DOMAIN RawValues[k] = {"name", "dob"}
    /\ \A k \in DOMAIN CoreValues : DOMAIN CoreValues[k] = {"name", "dob"}
    /\ \A o \in ObjNames : DOMAIN Objects[o] = {"name", "dob"}
    /\ \A d \in {sqlite.db, sqlite.committed} :
          /\ \A r \in d.rows : r.id \in Nat \ {0}
          /\ \A r1, r2 \in d.rows : r1.id = r2.id => r1 = r2
          /\ Cardinality(Ids(d.rows)) = Cardinality(d.rows)
    /\ \A o \in ObjNames : objs[o].st = "persistent" <=> objs[o].id # 0

C5_Witness ==
    /\ Cardinality(sqlite.db.rows) = 2
    /\ pc = 89
    /\ cursor = 1

\* C6: every query returns exactly the rows inserted in its own section
\* before it: the raw select 1 row (Alice Almeron), the Core select 2 rows,
\* the ORM select 2 users, the sqlmodel select 1 user (user_1).
C6_QueryResults ==
    /\ pc = 47 => result = << [id |-> 1, name |-> "Alice Almeron", dob |-> Dob1] >>
    /\ pc = 89 => result = << [id |-> 1, name |-> "Alice Almeron", dob |-> Dob2],
                              [id |-> 2, name |-> "Bob Baker", dob |-> Dob3] >>
    /\ pc = 135 => result = << Row(1, "orm_user_1"), Row(2, "orm_user_2") >>
    /\ pc = 167 => result = << Row(1, "sm_user_1") >>

C6_Witness ==
    /\ pc = 167
    /\ cursor = 1
    /\ user = << Row(1, "sm_user_1") >>

\* C7: the ORM select of line 134 returns user_1 (flushed at line 127) and
\* user_2 (added only, flushed by the query), and the User() of line 133,
\* never added, is never pending, never persistent, never a row of the
\* table and never in a result.
C7_OrmSelectSeesAdded ==
    /\ pc = 135 =>
          /\ objs.orm_user_1.st = "persistent"
          /\ objs.orm_user_2.st = "persistent"
          /\ \E k \in DOMAIN result : result[k] = Row(objs.orm_user_1.id, "orm_user_1")
          /\ \E k \in DOMAIN result : result[k] = Row(objs.orm_user_2.id, "orm_user_2")
          /\ new = << >>
    /\ objs.orm_anon.st \in {"unmade", "transient"}
    /\ "orm_anon" \notin identity
    /\ \A k \in DOMAIN new : new[k] # "orm_anon"
    /\ \A r \in sqlite.db.rows \cup sqlite.committed.rows : r.name # None
    /\ \A k \in DOMAIN result : result[k].name # None

C7_Witness ==
    /\ pc = 135
    /\ cursor = 2
    /\ objs.orm_anon.st = "transient"
    /\ Len(result) = 2

\* C8: s.get(User, 2) at line 175 returns the row of user_2 (name "Bob"),
\* not None: in the re-created table user_1 has id 1 and user_2 id 2, and
\* both rows are committed when the get runs.
C8_GetReturnsBob ==
    /\ pc = 175 =>
          /\ objs.sm_user_1.id = 1
          /\ objs.sm_user_2.id = 2
          /\ sqlite.committed.rows = {Row(1, "sm_user_1"), Row(2, "sm_user_2")}
    /\ pc \in {177, 179} => got = << Row(2, "sm_user_2") >>

C8_Witness ==
    /\ pc = 177
    /\ got # << >>
    /\ got[1].name = "Bob"

\* The rows the script inserts through conn.
ConnRows(rows) == {r \in rows : r.dob \in {Dob1, Dob2, Dob3}}

====
